---- MODULE Spec2Model ----
(***************************************************************************)
(* Model of the custodial signer: the SecureKeyStore (a map from key id   *)
(* to an ed25519 private key, guarded by a sync.RWMutex), the             *)
(* signerService (GenerateKey, SignTransaction) and the HTTP handler      *)
(* handleTxSign, which runs SignTransaction in a goroutine and races the  *)
(* result handoff against a context deadline.                             *)
(*                                                                         *)
(* Private keys are byte slices: the map holds a reference into `heap`,   *)
(* Get returns that same reference (no copy), and Zerorize overwrites     *)
(* the referenced bytes in place, one byte per step, before deleting the  *)
(* map entry.  ed25519.Sign reads the bytes without holding the mutex,    *)
(* one byte per step, so a read that races a Zerorize can see any mix.    *)
(***************************************************************************)
EXTENDS Integers, Sequences, FiniteSets, TLC

\* Bounds of the model.
NumReq == 2        \* signing requests (handleTxSign invocations)
MaxKeys == 1       \* distinct key pairs ed25519.GenerateKey can return
MaxStores == 1     \* direct SecureKeyStore.Store calls (ApiSpec only)
KeyLen == 2        \* ed25519.PrivateKeySize, scaled down
MaxCalls == 2      \* direct Get and Zerorize calls of one caller (VaultSpec only)

\* net/http status codes used by the handlers.
StatusOK == 200
StatusBadRequest == 400
StatusInternalServerError == 500
StatusGatewayTimeout == 504

Requests == 1..NumReq
Seeds == 1..MaxKeys

VARIABLES
    keys,      \* SecureKeyStore.keys: id -> reference of the key's byte slice
    heap,      \* the byte slices, by reference (index)
    orig,      \* history: the bytes each slice held when it was stored
    mu,        \* SecureKeyStore.mu: [writer, readers]
    alive,     \* the process is running (an unrecovered panic ends it)
    req,       \* the decoded TransactionRequest of each request
    hpc,       \* handler position: "idle", "select", "done"
    gpc,       \* goroutine position: "none", "get", "getting",
               \* "sign", "zerorize", "zeroing", "select", "done"
    ctxDone,   \* ctx.Done() of the request is closed
    privKey,   \* SignTransaction local privKey (a reference, 0 = nil)
    buf,       \* the key bytes ed25519.Sign has read so far
    zpk,       \* Zerorize local pk (a reference, 0 = none)
    zi,        \* Zerorize loop index i (1-based)
    ret,       \* what SignTransaction returned: [result, err]
    resp,      \* the HTTP response written: [status, error, result]
    seen,      \* history: the bytes of the slice at the moment Get returned it
    ops,       \* history: the vault operations SignTransaction issued
    known      \* history: GenerateKey had returned the call's id when
               \* SignTransaction was called with it

vars == <<keys, heap, orig, mu, alive, req, hpc, gpc, ctxDone, privKey, buf,
          zpk, zi, ret, resp, seen, ops, known>>

vaultVars == <<keys, heap, orig, mu>>
localVars == <<privKey, buf, zpk, zi, seen>>

----------------------------------------------------------------------------
(* Keys, ids and encodings *)

\* ed25519.GenerateKey: the private key is seed || public key; the bytes
\* are a function of the random seed (all non-zero here).
NewPrivateKey(seed) == [i \in 1..KeyLen |-> 16 * seed + i]

\* privateKey[32:], the public half of a private key.
PublicKey(priv) == SubSeq(priv, (KeyLen \div 2) + 1, KeyLen)

HexDigits == <<"0", "1", "2", "3", "4", "5", "6", "7",
               "8", "9", "a", "b", "c", "d", "e", "f">>

\* hex.EncodeToString
RECURSIVE HexEncode(_)
HexEncode(bytes) ==
    IF bytes = <<>> THEN ""
    ELSE HexDigits[(Head(bytes) \div 16) + 1] \o HexDigits[(Head(bytes) % 16) + 1]
         \o HexEncode(Tail(bytes))

KeyIdOf(priv) == HexEncode(PublicKey(priv))

GenIds == {KeyIdOf(NewPrivateKey(s)) : s \in Seeds}

\* What a direct Store call may put in the vault: a key of the wrong length
\* under an id of its own, as the repository's tests do, or a key of the
\* right length that GenerateKey never returns.
ShortKey == [i \in 1..(KeyLen - 1) |-> 112 + i]
TestKey == [i \in 1..KeyLen |-> 96 + i]
ApiKeys == {ShortKey, TestKey}
RawId == "sampleKeyId"
WriteId == "write-keyid-0"
VaultIds == {RawId, WriteId}

B64Alphabet ==
    <<"A", "B", "C", "D", "E", "F", "G", "H", "I", "J", "K", "L", "M",
      "N", "O", "P", "Q", "R", "S", "T", "U", "V", "W", "X", "Y", "Z",
      "a", "b", "c", "d", "e", "f", "g", "h", "i", "j", "k", "l", "m",
      "n", "o", "p", "q", "r", "s", "t", "u", "v", "w", "x", "y", "z",
      "0", "1", "2", "3", "4", "5", "6", "7", "8", "9", "+", "/">>

IsB64Char(c) == \E i \in 1..64 : B64Alphabet[i] = c
B64Value(c) == (CHOOSE i \in 1..64 : B64Alphabet[i] = c) - 1

\* encoding/base64 decodeQuantum for input without line breaks: reads up to
\* four characters from position si (0-based count of characters consumed).
\* err = -1: no error, else the CorruptInputError offset.
RECURSIVE DecodeQuantum(_, _, _, _)
DecodeQuantum(src, si, j, dbuf) ==
    IF j = 4 THEN [err |-> -1, nsi |-> si, dbuf |-> dbuf, end |-> FALSE]
    ELSE IF si = Len(src) THEN
        IF j = 0 THEN [err |-> -1, nsi |-> si, dbuf |-> <<>>, end |-> TRUE]
        ELSE [err |-> si - j, nsi |-> si, dbuf |-> <<>>, end |-> TRUE]
    ELSE IF IsB64Char(src[si + 1]) THEN
        DecodeQuantum(src, si + 1, j + 1, Append(dbuf, B64Value(src[si + 1])))
    ELSE IF src[si + 1] # "=" \/ j < 2 THEN
        [err |-> si, nsi |-> si + 1, dbuf |-> <<>>, end |-> TRUE]
    ELSE IF j = 2 /\ si + 1 = Len(src) THEN
        [err |-> Len(src), nsi |-> si + 1, dbuf |-> <<>>, end |-> TRUE]
    ELSE IF j = 2 /\ src[si + 2] # "=" THEN
        [err |-> si, nsi |-> si + 1, dbuf |-> <<>>, end |-> TRUE]
    ELSE LET nsi == IF j = 2 THEN si + 2 ELSE si + 1
         IN  [err |-> IF nsi < Len(src) THEN nsi ELSE -1,
              nsi |-> nsi, dbuf |-> dbuf, end |-> TRUE]

\* The 3, 2 or 1 bytes that 4, 3 or 2 six-bit values decode to.
QuantumBytes(dbuf) ==
    LET v(k) == IF k <= Len(dbuf) THEN dbuf[k] ELSE 0
        b1 == v(1) * 4 + (v(2) \div 16)
        b2 == (v(2) % 16) * 16 + (v(3) \div 4)
        b3 == (v(3) % 4) * 64 + v(4)
    IN  SubSeq(<<b1, b2, b3>>, 1, IF Len(dbuf) = 0 THEN 0 ELSE Len(dbuf) - 1)

\* base64.StdEncoding.DecodeString: [err, data]
RECURSIVE DecodeFrom(_, _, _)
DecodeFrom(src, si, acc) ==
    LET q == DecodeQuantum(src, si, 0, <<>>)
    IN  IF q.err # -1 THEN [err |-> q.err, data |-> acc]
        ELSE IF q.end THEN [err |-> -1, data |-> acc \o QuantumBytes(q.dbuf)]
        ELSE DecodeFrom(src, q.nsi, acc \o QuantumBytes(q.dbuf))

\* Variant: a decoder that accepts every input.
DecodeStringLenient(s) == [err |-> -1, data |-> <<>>]

DecodeString(s) == DecodeFrom(s, 0, <<>>)

\* The payloads requests carry: empty, "QQ==" (one byte, 65), "Q!==" (malformed).
GoodPayload == <<"Q", "Q", "=", "=">>
MalformedPayload == <<"Q", "!", "=", "=">>
Payloads == {<<>>, GoodPayload, MalformedPayload}

\* ed25519.Sign is a deterministic function of the key bytes it read and of
\* the message; it is kept as the pair.  EncodeToString tags the signature.
Ed25519Sign(keyBytes, msg) == <<keyBytes, msg>>
EncodeToString(sig) == <<"base64", sig>>

----------------------------------------------------------------------------
(* Records *)

EmptyResult == [KeyID |-> "", Signature |-> <<>>, BroadcastStatus |-> "", Error |-> ""]
NoRequest == [KeyID |-> "", UnsignedTxData |-> <<>>]
NoReturn == [result |-> EmptyResult, err |-> ""]
NoResponse == [status |-> 0, error |-> "", result |-> EmptyResult]

\* The error texts of SignTransaction and of the handler.
ErrEmpty == "KeyID and unsigned TX data cannot be empty"
ErrDecode(off) == "Invalid base64 encoding of tx data: illegal base64 data at input byte "
                  \o ToString(off)
ErrGet == "key not found"
ErrRetrieval == "key retrieval failed w/ error: " \o ErrGet
ErrZerorize == "Key not found"
ErrClearing == "error clearing key from mem: " \o ErrZerorize
ErrPanicResult == "Internal Signing Error, Try again later"
ErrPanic == "Signing failed due to internal error"
\* The body that does not decode is the empty body: json.Decoder returns io.EOF.
ErrBody == "Invalid request body: " \o "EOF"
ErrTimeout == "Tx signing request timedout" \o "%!(EXTRA int=504)"

----------------------------------------------------------------------------
(* Initial state: NewSecureKeyStore, no request in flight *)

Init ==
    /\ keys = <<>>
    /\ heap = <<>>
    /\ orig = <<>>
    /\ mu = [writer |-> 0, readers |-> {}]
    /\ alive = TRUE
    /\ req = [r \in Requests |-> NoRequest]
    /\ hpc = [r \in Requests |-> "idle"]
    /\ gpc = [r \in Requests |-> "none"]
    /\ ctxDone = [r \in Requests |-> FALSE]
    /\ privKey = [r \in Requests |-> 0]
    /\ buf = [r \in Requests |-> <<>>]
    /\ zpk = [r \in Requests |-> 0]
    /\ zi = [r \in Requests |-> 0]
    /\ ret = [r \in Requests |-> NoReturn]
    /\ resp = [r \in Requests |-> NoResponse]
    /\ seen = [r \in Requests |-> <<>>]
    /\ ops = [r \in Requests |-> <<>>]
    /\ known = [r \in Requests |-> FALSE]

----------------------------------------------------------------------------
(* sync.RWMutex *)

\* Lock() can be taken: no writer and no reader holds the mutex.
CanLock == mu.writer = 0 /\ mu.readers = {}
\* Variant: Get does not wait for the writer (no read lock taken).
CanRLockAlways == TRUE

\* RLock() can be taken: no writer holds the mutex.
CanRLock == mu.writer = 0

----------------------------------------------------------------------------
(* SecureKeyStore.Store and signerService.GenerateKey *)

\* Variant: Store keeps the record an id already has.
StoreIfAbsent(id, key) ==
    /\ CanLock
    /\ heap' = Append(heap, key)
    /\ orig' = Append(orig, key)
    /\ keys' = [x \in (DOMAIN keys) \cup {id} |->
                    IF x \in DOMAIN keys THEN keys[x] ELSE Len(heap) + 1]
    /\ UNCHANGED mu

\* Store: under Lock, s.keys[id] = key.  The map keeps the caller's slice.
Store(id, key) ==
    /\ CanLock
    /\ heap' = Append(heap, key)
    /\ orig' = Append(orig, key)
    /\ keys' = [x \in (DOMAIN keys) \cup {id} |->
                    IF x = id THEN Len(heap) + 1 ELSE keys[x]]
    /\ UNCHANGED mu

\* ed25519.GenerateKey(rand.Reader) returns a key pair no earlier call
\* returned; the key pairs are numbered in the order they are drawn.
FreshSeed(seed) ==
    /\ \A ref \in 1..Len(orig) : orig[ref] # NewPrivateKey(seed)
    /\ \A t \in 1..(seed - 1) : \E ref \in 1..Len(orig) : orig[ref] = NewPrivateKey(t)

\* handleGenKey / GenerateKey: generate, derive the id, Store.
GenerateKey(seed) ==
    /\ alive
    /\ FreshSeed(seed)
    /\ Store(KeyIdOf(NewPrivateKey(seed)), NewPrivateKey(seed))
    /\ UNCHANGED <<alive, req, hpc, gpc, ctxDone, ret, resp, ops, known>>
    /\ UNCHANGED localVars

\* A direct Store call on the vault, as the repository's tests make.
ApiStore(id, key) ==
    /\ alive
    /\ Len(heap) < MaxKeys + MaxStores
    /\ Store(id, key)
    /\ UNCHANGED <<alive, req, hpc, gpc, ctxDone, ret, resp, ops, known>>
    /\ UNCHANGED localVars

----------------------------------------------------------------------------
(* handleTxSign: request arrival, and the start of SignTransaction *)

\* Variant: the goroutine sends with a plain `resultChan <- res`.
NoCtxDoneCase(r) == FALSE

\* The goroutine's `case <-ctx.Done()` can be taken.
CtxDoneCase(r) == ctxDone[r]

\* SignTransaction returns (result, err): its locals die.  The goroutine
\* sets res.Error and reaches its select, which takes the ctx.Done() case
\* at once when the context is already done, and parks otherwise.
Return(r, result, e) ==
    /\ ret' = [ret EXCEPT ![r] = [result |-> result, err |-> e]]
    /\ gpc' = [gpc EXCEPT ![r] = IF CtxDoneCase(r) THEN "done" ELSE "select"]
    /\ privKey' = [privKey EXCEPT ![r] = 0]
    /\ buf' = [buf EXCEPT ![r] = <<>>]
    /\ zpk' = [zpk EXCEPT ![r] = 0]
    /\ zi' = [zi EXCEPT ![r] = 0]
    /\ seen' = [seen EXCEPT ![r] = <<>>]

\* result after `result.KeyID = req.KeyID`
BaseResult(q) == [EmptyResult EXCEPT !.KeyID = q.KeyID]

\* Variant: the validation checks the key id only.
InputEmptyKeyOnly(q) == q.KeyID = ""

\* The input validation of SignTransaction.
InputEmpty(q) == q.KeyID = "" \/ q.UnsignedTxData = <<>>

ValidInput(q) == ~InputEmpty(q) /\ DecodeString(q.UnsignedTxData).err = -1

\* An id that GenerateKey has stored at some time.
Generated(id) ==
    \E ref \in 1..Len(orig) : Len(orig[ref]) = KeyLen /\ KeyIdOf(orig[ref]) = id

\* Requests are anonymous: request r arrives after requests 1..r-1.
\* A body that does not decode is answered 400 at once.  Otherwise the
\* handler makes resultChan and ctx, starts the goroutine and waits in its
\* select.  The goroutine calls SignTransaction, whose validation and
\* payload decoding touch no shared state and are taken with its start:
\* it either returns the validation or decode error or stands before Get.
Arrive(r, bodyOk, id, payload) ==
    /\ alive
    /\ hpc[r] = "idle"
    /\ \A q \in 1..(r - 1) : hpc[q] # "idle"
    /\ IF ~bodyOk
       THEN /\ hpc' = [hpc EXCEPT ![r] = "done"]
            /\ resp' = [resp EXCEPT ![r] =
                   [status |-> StatusBadRequest, error |-> ErrBody, result |-> EmptyResult]]
            /\ UNCHANGED <<req, gpc, ret, known>>
            /\ UNCHANGED localVars
       ELSE LET q == [KeyID |-> id, UnsignedTxData |-> payload]
            IN  /\ req' = [req EXCEPT ![r] = q]
                /\ hpc' = [hpc EXCEPT ![r] = "select"]
                /\ UNCHANGED resp
                /\ known' = [known EXCEPT ![r] = Generated(id)]
                /\ IF InputEmpty(q)
                   THEN Return(r, BaseResult(q), ErrEmpty)
                   ELSE IF DecodeString(payload).err # -1
                   THEN Return(r, BaseResult(q), ErrDecode(DecodeString(payload).err))
                   ELSE /\ gpc' = [gpc EXCEPT ![r] = "get"]
                        /\ UNCHANGED ret
                        /\ UNCHANGED localVars
    /\ UNCHANGED <<alive, ctxDone, ops>>
    /\ UNCHANGED vaultVars

----------------------------------------------------------------------------
(* signerService.SignTransaction, run by the request's goroutine *)

\* SecureKeyStore.Get: s.mu.RLock()
GetRLock(r) ==
    /\ alive
    /\ gpc[r] = "get"
    /\ CanRLock
    /\ mu' = [mu EXCEPT !.readers = @ \cup {r}]
    /\ gpc' = [gpc EXCEPT ![r] = "getting"]
    /\ ops' = [ops EXCEPT ![r] = Append(@, "Get")]
    /\ UNCHANGED <<keys, heap, orig, alive, req, hpc, ctxDone, ret, resp, known>>
    /\ UNCHANGED localVars

\* Variant: Get takes the key out of the map as it returns it.
GetReturnTaking(r) ==
    /\ alive
    /\ gpc[r] = "getting"
    /\ mu' = [mu EXCEPT !.readers = @ \ {r}]
    /\ IF req[r].KeyID \in DOMAIN keys
       THEN /\ privKey' = [privKey EXCEPT ![r] = keys[req[r].KeyID]]
            /\ seen' = [seen EXCEPT ![r] = heap[keys[req[r].KeyID]]]
            /\ gpc' = [gpc EXCEPT ![r] = "sign"]
            /\ keys' = [x \in (DOMAIN keys) \ {req[r].KeyID} |-> keys[x]]
            /\ UNCHANGED <<ret, buf, zpk, zi>>
       ELSE Return(r, BaseResult(req[r]), ErrRetrieval) /\ UNCHANGED keys
    /\ UNCHANGED <<heap, orig, alive, req, hpc, ctxDone, resp, ops, known>>

\* SecureKeyStore.Get: the lookup, the deferred RUnlock and the return; the
\* slice returned is the one the map holds.
GetReturn(r) ==
    /\ alive
    /\ gpc[r] = "getting"
    /\ mu' = [mu EXCEPT !.readers = @ \ {r}]
    /\ IF req[r].KeyID \in DOMAIN keys
       THEN /\ privKey' = [privKey EXCEPT ![r] = keys[req[r].KeyID]]
            /\ seen' = [seen EXCEPT ![r] = heap[keys[req[r].KeyID]]]
            /\ gpc' = [gpc EXCEPT ![r] = "sign"]
            /\ UNCHANGED <<ret, buf, zpk, zi>>
       ELSE Return(r, BaseResult(req[r]), ErrRetrieval)
    /\ UNCHANGED <<keys, heap, orig, alive, req, hpc, ctxDone, resp, ops, known>>

\* Variant: SignTransaction has no deferred recover.
NoRecover(result) == [recovered |-> FALSE, result |-> result, err |-> ""]

\* The deferred recover of SignTransaction: what a panic turns into.
DeferredRecover(result) ==
    [recovered |-> TRUE,
     result |-> [result EXCEPT !.Error = ErrPanicResult],
     err |-> ErrPanic]

\* ed25519.Sign panics when len(privateKey) # PrivateKeySize.
SignPanic(r) ==
    /\ alive
    /\ gpc[r] = "sign"
    /\ Len(heap[privKey[r]]) # KeyLen
    /\ LET d == DeferredRecover(BaseResult(req[r]))
       IN  IF d.recovered
           THEN Return(r, d.result, d.err) /\ UNCHANGED alive
           ELSE /\ alive' = FALSE
                /\ UNCHANGED <<ret, gpc>>
                /\ UNCHANGED localVars
    /\ UNCHANGED <<req, hpc, ctxDone, resp, ops, known>>
    /\ UNCHANGED vaultVars

\* Variant: the signing step gives up once the context is done.
SignReadUntilCancelled(r) ==
    /\ alive
    /\ gpc[r] = "sign"
    /\ Len(heap[privKey[r]]) = KeyLen
    /\ IF ctxDone[r]
       THEN Return(r, BaseResult(req[r]), "context deadline exceeded")
       ELSE /\ buf' = [buf EXCEPT ![r] = Append(@, heap[privKey[r]][Len(@) + 1])]
            /\ gpc' = [gpc EXCEPT ![r] =
                   IF Len(buf[r]) + 1 = KeyLen THEN "zerorize" ELSE "sign"]
            /\ UNCHANGED <<privKey, zpk, zi, ret, seen>>
    /\ UNCHANGED <<alive, req, hpc, ctxDone, resp, ops, known>>
    /\ UNCHANGED vaultVars

\* ed25519.Sign reads the next byte of the key, without the mutex.
SignRead(r) ==
    /\ alive
    /\ gpc[r] = "sign"
    /\ Len(heap[privKey[r]]) = KeyLen
    /\ buf' = [buf EXCEPT ![r] = Append(@, heap[privKey[r]][Len(@) + 1])]
    /\ gpc' = [gpc EXCEPT ![r] = IF Len(buf[r]) + 1 = KeyLen THEN "zerorize" ELSE "sign"]
    /\ UNCHANGED <<alive, req, hpc, ctxDone, privKey, zpk, zi, ret, resp, seen, ops, known>>
    /\ UNCHANGED vaultVars

\* Variant: Zerorize zeroes the bytes but leaves the map entry.
KeepKey(id) == keys

\* Variant: Zerorize replaces the map by an empty one.
DeleteAllKeys(id) == <<>>

\* delete(s.keys, id)
DeleteKey(id) == [x \in (DOMAIN keys) \ {id} |-> keys[x]]

\* Variant: the error of Zerorize is dropped and the signature returned.
ClearingFailureIgnored(r) ==
    Return(r,
           [BaseResult(req[r]) EXCEPT
               !.Signature = EncodeToString(
                   Ed25519Sign(buf[r], DecodeString(req[r].UnsignedTxData).data)),
               !.BroadcastStatus = "Signed and Ready"],
           "")

\* Variant: a failed Zerorize is reported like a failed Get.
ReturnClearingAsNotFound(r) == Return(r, BaseResult(req[r]), ErrRetrieval)

\* SignTransaction after Zerorize returned an error: it returns the error.
ReturnClearingFailed(r) == Return(r, BaseResult(req[r]), ErrClearing)

\* SignTransaction after Zerorize returned nil: the encoded signature.
ReturnSigned(r) ==
    Return(r,
           [BaseResult(req[r]) EXCEPT
               !.Signature = EncodeToString(
                   Ed25519Sign(buf[r], DecodeString(req[r].UnsignedTxData).data)),
               !.BroadcastStatus = "Signed and Ready"],
           "")

\* SecureKeyStore.Zerorize: s.mu.Lock() and the lookup.  A missing id
\* returns the error (the deferred Unlock runs in the same step) and
\* SignTransaction returns "error clearing key from mem".
ZerorizeLock(r) ==
    /\ alive
    /\ gpc[r] = "zerorize"
    /\ CanLock
    /\ ops' = [ops EXCEPT ![r] = Append(@, "Zerorize")]
    /\ IF req[r].KeyID \in DOMAIN keys
       THEN /\ mu' = [mu EXCEPT !.writer = r]
            /\ zpk' = [zpk EXCEPT ![r] = keys[req[r].KeyID]]
            /\ zi' = [zi EXCEPT ![r] = 1]
            /\ gpc' = [gpc EXCEPT ![r] = "zeroing"]
            /\ UNCHANGED <<ret, privKey, buf, seen>>
       ELSE /\ ReturnClearingFailed(r)
            /\ UNCHANGED mu
    /\ UNCHANGED <<keys, heap, orig, alive, req, hpc, ctxDone, resp, known>>

\* SecureKeyStore.Zerorize: pk[i] = 0
ZerorizeByte(r) ==
    /\ alive
    /\ gpc[r] = "zeroing"
    /\ zi[r] <= Len(heap[zpk[r]])
    /\ heap' = [heap EXCEPT ![zpk[r]][zi[r]] = 0]
    /\ zi' = [zi EXCEPT ![r] = @ + 1]
    /\ UNCHANGED <<keys, orig, mu, alive, req, hpc, gpc, ctxDone, privKey, buf, zpk,
                   ret, resp, seen, ops, known>>

\* SecureKeyStore.Zerorize: delete(s.keys, id), the deferred Unlock, return
\* nil; SignTransaction then encodes the signature and returns success.
ZerorizeDelete(r) ==
    /\ alive
    /\ gpc[r] = "zeroing"
    /\ zi[r] > Len(heap[zpk[r]])
    /\ keys' = DeleteKey(req[r].KeyID)
    /\ mu' = [mu EXCEPT !.writer = 0]
    /\ ReturnSigned(r)
    /\ UNCHANGED <<heap, orig, alive, req, hpc, ctxDone, resp, ops, known>>

----------------------------------------------------------------------------
(* handleTxSign: the deadline and the two select statements *)

\* The goroutine's res after `if err != nil { res.Error = err.Error() }`.
GoroutineRes(r) ==
    IF ret[r].err # "" THEN [ret[r].result EXCEPT !.Error = ret[r].err]
    ELSE ret[r].result

\* context.WithTimeout: the timer fires and closes ctx.Done().  Closing the
\* channel commits every select parked on it to its ctx.Done() case.
Deadline(r) ==
    /\ alive
    /\ hpc[r] = "select"
    /\ ~ctxDone[r]
    /\ ctxDone' = [ctxDone EXCEPT ![r] = TRUE]
    /\ UNCHANGED <<alive, req, hpc, gpc, ret, resp, ops, known>>
    /\ UNCHANGED vaultVars
    /\ UNCHANGED localVars

\* The response the handler writes for a received result.
Respond(res) ==
    IF res.Error # ""
    THEN [status |-> StatusBadRequest, error |-> res.Error, result |-> EmptyResult]
    ELSE [status |-> StatusOK, error |-> "", result |-> res]

\* Variant: the handler writes the received result and waits on, as in a
\* `for { select { ... } }`.
HandoffAndWaitOn(r) ==
    /\ alive
    /\ hpc[r] = "select"
    /\ gpc[r] = "select"
    /\ ~ctxDone[r]
    /\ resp' = [resp EXCEPT ![r] = Respond(GoroutineRes(r))]
    /\ gpc' = [gpc EXCEPT ![r] = "done"]
    /\ UNCHANGED <<alive, req, hpc, ctxDone, ret, ops, known>>
    /\ UNCHANGED vaultVars
    /\ UNCHANGED localVars

\* `resultChan <- res` meets `res := <-resultChan`: the unbuffered channel
\* hands the result over while both sides wait and ctx.Done() is open.  The
\* handler writes the response and returns; its deferred cancel closes ctx.
Handoff(r) ==
    /\ alive
    /\ hpc[r] = "select"
    /\ gpc[r] = "select"
    /\ ~ctxDone[r]
    /\ resp' = [resp EXCEPT ![r] = Respond(GoroutineRes(r))]
    /\ hpc' = [hpc EXCEPT ![r] = "done"]
    /\ gpc' = [gpc EXCEPT ![r] = "done"]
    /\ ctxDone' = [ctxDone EXCEPT ![r] = TRUE]
    /\ UNCHANGED <<alive, req, ret, ops, known>>
    /\ UNCHANGED vaultVars
    /\ UNCHANGED localVars

\* Variant: the handler answers the timeout once the goroutine is done.
HandlerTimeoutAfterGoroutine(r) ==
    /\ alive
    /\ hpc[r] = "select"
    /\ ctxDone[r]
    /\ gpc[r] = "done"
    /\ resp' = [resp EXCEPT ![r] =
           [status |-> StatusGatewayTimeout, error |-> ErrTimeout, result |-> EmptyResult]]
    /\ hpc' = [hpc EXCEPT ![r] = "done"]
    /\ UNCHANGED <<alive, req, gpc, ctxDone, ret, ops, known>>
    /\ UNCHANGED vaultVars
    /\ UNCHANGED localVars

\* The handler's `case <-ctx.Done()`: 504, without the goroutine.
HandlerTimeout(r) ==
    /\ alive
    /\ hpc[r] = "select"
    /\ ctxDone[r]
    /\ resp' = [resp EXCEPT ![r] =
           [status |-> StatusGatewayTimeout, error |-> ErrTimeout, result |-> EmptyResult]]
    /\ hpc' = [hpc EXCEPT ![r] = "done"]
    /\ UNCHANGED <<alive, req, gpc, ctxDone, ret, ops, known>>
    /\ UNCHANGED vaultVars
    /\ UNCHANGED localVars

\* The goroutine's `case <-ctx.Done()`: it logs and exits.
GoroutineCtxDone(r) ==
    /\ alive
    /\ gpc[r] = "select"
    /\ CtxDoneCase(r)
    /\ gpc' = [gpc EXCEPT ![r] = "done"]
    /\ UNCHANGED <<alive, req, hpc, ctxDone, ret, resp, ops, known>>
    /\ UNCHANGED vaultVars
    /\ UNCHANGED localVars

----------------------------------------------------------------------------
(* Specifications *)

\* The server of main.go: keys enter the vault through GenerateKey only.
Next ==
    \/ \E s \in Seeds : GenerateKey(s)
    \/ \E r \in Requests : Arrive(r, FALSE, "", <<>>)
    \/ \E r \in Requests, id \in GenIds \cup {""}, p \in Payloads : Arrive(r, TRUE, id, p)
    \/ \E r \in Requests : GetRLock(r)
    \/ \E r \in Requests : GetReturn(r)
    \/ \E r \in Requests : SignRead(r)
    \/ \E r \in Requests : ZerorizeLock(r)
    \/ \E r \in Requests : ZerorizeByte(r)
    \/ \E r \in Requests : ZerorizeDelete(r)
    \/ \E r \in Requests : Deadline(r)
    \/ \E r \in Requests : Handoff(r)
    \/ \E r \in Requests : HandlerTimeout(r)
    \/ \E r \in Requests : GoroutineCtxDone(r)

Spec == Init /\ [][Next]_vars

\* The Go scheduler runs every goroutine that can take a step, and the
\* timer of context.WithTimeout fires.
Fairness ==
    \A r \in Requests :
        /\ WF_vars(GetRLock(r))
        /\ WF_vars(GetReturn(r))
        /\ WF_vars(SignRead(r))
        /\ WF_vars(ZerorizeLock(r))
        /\ WF_vars(ZerorizeByte(r))
        /\ WF_vars(ZerorizeDelete(r))
        /\ WF_vars(Deadline(r))
        /\ WF_vars(HandlerTimeout(r))
        /\ WF_vars(GoroutineCtxDone(r))

FairSpec == Init /\ [][Next]_vars /\ Fairness

\* The service together with direct calls of SecureKeyStore.Store, which
\* can put a key of any length under any id.
ApiNext ==
    \/ \E s \in Seeds : GenerateKey(s)
    \/ \E id \in GenIds \cup {RawId}, k \in ApiKeys : ApiStore(id, k)
    \/ \E r \in Requests : Arrive(r, FALSE, "", <<>>)
    \/ \E r \in Requests, id \in GenIds \cup {"", RawId}, p \in Payloads :
           Arrive(r, TRUE, id, p)
    \/ \E r \in Requests : GetRLock(r)
    \/ \E r \in Requests : GetReturn(r)
    \/ \E r \in Requests : SignPanic(r)
    \/ \E r \in Requests : SignRead(r)
    \/ \E r \in Requests : ZerorizeLock(r)
    \/ \E r \in Requests : ZerorizeByte(r)
    \/ \E r \in Requests : ZerorizeDelete(r)
    \/ \E r \in Requests : Deadline(r)
    \/ \E r \in Requests : Handoff(r)
    \/ \E r \in Requests : HandlerTimeout(r)
    \/ \E r \in Requests : GoroutineCtxDone(r)

ApiSpec == Init /\ [][ApiNext]_vars

\* Sequential use: a SignTransaction or GenerateKey call starts only when
\* no SignTransaction call is running.
NoCallRunning == \A q \in Requests : gpc[q] \in {"none", "select", "done"}

SeqGenerateKey(seed) == NoCallRunning /\ GenerateKey(seed)
SeqArrive(r, bodyOk, id, payload) == NoCallRunning /\ Arrive(r, bodyOk, id, payload)

SeqNext ==
    \/ \E s \in Seeds : SeqGenerateKey(s)
    \/ \E r \in Requests : SeqArrive(r, FALSE, "", <<>>)
    \/ \E r \in Requests, id \in GenIds \cup {""}, p \in Payloads :
           SeqArrive(r, TRUE, id, p)
    \/ \E r \in Requests : GetRLock(r)
    \/ \E r \in Requests : GetReturn(r)
    \/ \E r \in Requests : SignRead(r)
    \/ \E r \in Requests : ZerorizeLock(r)
    \/ \E r \in Requests : ZerorizeByte(r)
    \/ \E r \in Requests : ZerorizeDelete(r)
    \/ \E r \in Requests : Deadline(r)
    \/ \E r \in Requests : Handoff(r)
    \/ \E r \in Requests : HandlerTimeout(r)
    \/ \E r \in Requests : GoroutineCtxDone(r)

SeqSpec == Init /\ [][SeqNext]_vars

----------------------------------------------------------------------------
(* Direct calls of SecureKeyStore.Get and SecureKeyStore.Zerorize *)

\* The callers are goroutines that use the vault without the service, one
\* call after another; ret[c].err is the error of the caller's last call,
\* privKey[c] the slice its last Get returned.

\* store.Get(id): s.mu.RLock()
ApiGetRLock(c, id) ==
    /\ alive
    /\ gpc[c] = "none"
    /\ Len(ops[c]) < MaxCalls
    /\ CanRLock
    /\ mu' = [mu EXCEPT !.readers = @ \cup {c}]
    /\ req' = [req EXCEPT ![c] = [KeyID |-> id, UnsignedTxData |-> <<>>]]
    /\ gpc' = [gpc EXCEPT ![c] = "getting"]
    /\ ops' = [ops EXCEPT ![c] = Append(@, "Get")]
    /\ ret' = [ret EXCEPT ![c] = NoReturn]
    /\ privKey' = [privKey EXCEPT ![c] = 0]
    /\ seen' = [seen EXCEPT ![c] = <<>>]
    /\ UNCHANGED <<keys, heap, orig, alive, hpc, ctxDone, buf, zpk, zi, resp, known>>

\* store.Get(id): the lookup, the deferred RUnlock and the return.
ApiGetReturn(c) ==
    /\ alive
    /\ gpc[c] = "getting"
    /\ mu' = [mu EXCEPT !.readers = @ \ {c}]
    /\ gpc' = [gpc EXCEPT ![c] = "none"]
    /\ IF req[c].KeyID \in DOMAIN keys
       THEN /\ privKey' = [privKey EXCEPT ![c] = keys[req[c].KeyID]]
            /\ seen' = [seen EXCEPT ![c] = heap[keys[req[c].KeyID]]]
            /\ UNCHANGED ret
       ELSE /\ ret' = [ret EXCEPT ![c] = [result |-> EmptyResult, err |-> ErrGet]]
            /\ UNCHANGED <<privKey, seen>>
    /\ UNCHANGED <<keys, heap, orig, alive, req, hpc, ctxDone, buf, zpk, zi, resp, ops, known>>

\* Variant: Zerorize of an id that is not stored returns nil.
ApiZerorizeIdempotent(c, id) ==
    /\ alive
    /\ gpc[c] = "none"
    /\ Len(ops[c]) < MaxCalls
    /\ CanLock
    /\ req' = [req EXCEPT ![c] = [KeyID |-> id, UnsignedTxData |-> <<>>]]
    /\ ops' = [ops EXCEPT ![c] = Append(@, "Zerorize")]
    /\ ret' = [ret EXCEPT ![c] = NoReturn]
    /\ IF id \in DOMAIN keys
       THEN /\ mu' = [mu EXCEPT !.writer = c]
            /\ zpk' = [zpk EXCEPT ![c] = keys[id]]
            /\ zi' = [zi EXCEPT ![c] = 1]
            /\ gpc' = [gpc EXCEPT ![c] = "zeroing"]
       ELSE UNCHANGED <<mu, zpk, zi, gpc>>
    /\ UNCHANGED <<keys, heap, orig, alive, hpc, ctxDone, privKey, buf, resp, seen, known>>

\* store.Zerorize(id): s.mu.Lock() and the lookup; a missing id returns
\* the error, the deferred Unlock running in the same step.
ApiZerorizeLock(c, id) ==
    /\ alive
    /\ gpc[c] = "none"
    /\ Len(ops[c]) < MaxCalls
    /\ CanLock
    /\ req' = [req EXCEPT ![c] = [KeyID |-> id, UnsignedTxData |-> <<>>]]
    /\ ops' = [ops EXCEPT ![c] = Append(@, "Zerorize")]
    /\ IF id \in DOMAIN keys
       THEN /\ mu' = [mu EXCEPT !.writer = c]
            /\ zpk' = [zpk EXCEPT ![c] = keys[id]]
            /\ zi' = [zi EXCEPT ![c] = 1]
            /\ gpc' = [gpc EXCEPT ![c] = "zeroing"]
            /\ ret' = [ret EXCEPT ![c] = NoReturn]
       ELSE /\ ret' = [ret EXCEPT ![c] = [result |-> EmptyResult, err |-> ErrZerorize]]
            /\ UNCHANGED <<mu, zpk, zi, gpc>>
    /\ UNCHANGED <<keys, heap, orig, alive, hpc, ctxDone, privKey, buf, resp, seen, known>>

\* store.Zerorize(id): delete(s.keys, id), the deferred Unlock, return nil.
ApiZerorizeDelete(c) ==
    /\ alive
    /\ gpc[c] = "zeroing"
    /\ zi[c] > Len(heap[zpk[c]])
    /\ keys' = DeleteKey(req[c].KeyID)
    /\ mu' = [mu EXCEPT !.writer = 0]
    /\ gpc' = [gpc EXCEPT ![c] = "none"]
    /\ zpk' = [zpk EXCEPT ![c] = 0]
    /\ zi' = [zi EXCEPT ![c] = 0]
    /\ UNCHANGED <<heap, orig, alive, req, hpc, ctxDone, privKey, buf, ret, resp, seen,
                   ops, known>>

\* The vault used directly: Store, Get and Zerorize calls of concurrent
\* goroutines on a few ids.
VaultNext ==
    \/ \E id \in VaultIds, k \in ApiKeys : ApiStore(id, k)
    \/ \E c \in Requests, id \in VaultIds : ApiGetRLock(c, id)
    \/ \E c \in Requests : ApiGetReturn(c)
    \/ \E c \in Requests, id \in VaultIds : ApiZerorizeLock(c, id)
    \/ \E c \in Requests : ZerorizeByte(c)
    \/ \E c \in Requests : ApiZerorizeDelete(c)

VaultSpec == Init /\ [][VaultNext]_vars

\* TestSecureKeyStore_Concurrency: a key is stored under RawId first; then
\* concurrent goroutines Get RawId while others Store and Zerorize WriteId.
ConcurrencyNext ==
    \/ \E k \in ApiKeys : heap = <<>> /\ ApiStore(RawId, k)
    \/ \E k \in ApiKeys : heap # <<>> /\ ApiStore(WriteId, k)
    \/ \E c \in Requests : heap # <<>> /\ ApiGetRLock(c, RawId)
    \/ \E c \in Requests : ApiGetReturn(c)
    \/ \E c \in Requests : heap # <<>> /\ ApiZerorizeLock(c, WriteId)
    \/ \E c \in Requests : ZerorizeByte(c)
    \/ \E c \in Requests : ApiZerorizeDelete(c)

ConcurrencySpec == Init /\ [][ConcurrencyNext]_vars

----------------------------------------------------------------------------
(* Vocabulary of the properties *)

\* SignTransaction of request r has returned.
Returned(r) == gpc[r] \in {"select", "done"}

\* SignTransaction of request r returned a success result.
Success(r) == Returned(r) /\ ret[r].err = "" /\ ret[r].result.Signature # <<>>

\* Request r holds the slice a successful Get returned.
HoldsKey(r) == privKey[r] # 0

----------------------------------------------------------------------------
(* C1 *)

\* C1: among the SignTransaction calls on one key id, in any interleaving,
\* at most one returns a success result (non-empty signature, nil error),
\* and once a call has returned success the id is not in the vault.
C1_AtMostOneSuccess ==
    /\ \A r1, r2 \in Requests :
           (Success(r1) /\ Success(r2) /\ req[r1].KeyID = req[r2].KeyID) => r1 = r2
    /\ \A r \in Requests : Success(r) => req[r].KeyID \notin DOMAIN keys

\* Two calls on one id both obtained the key; one succeeded and the other
\* failed at its Zerorize.
C1_Witness ==
    \E r1, r2 \in Requests :
        /\ r1 # r2
        /\ req[r1].KeyID = req[r2].KeyID
        /\ Success(r1)
        /\ Returned(r2)
        /\ ret[r2].err = ErrClearing

----------------------------------------------------------------------------
(* C2 *)

\* The returned valid-payload calls on id that started after GenerateKey
\* returned id.
CallsOn(id) ==
    {r \in Requests : Returned(r) /\ known[r] /\ ValidInput(req[r]) /\ req[r].KeyID = id}

\* C2: run sequentially, of the calls on a generated id with a decodable
\* payload exactly one succeeds, and it is the first (the property holds
\* when only one call has returned); every other one fails with the
\* not-found error of the key retrieval.
C2_SucceedsExactlyOnce ==
    \A id \in GenIds :
        CallsOn(id) # {} =>
            /\ Cardinality({r \in CallsOn(id) : Success(r)}) = 1
            /\ \A r \in CallsOn(id) :
                   ~Success(r) =>
                       /\ ret[r].err = ErrRetrieval
                       /\ ret[r].result.Signature = <<>>

\* A first call succeeded and a later call on the same id failed.
C2_Witness ==
    \E r1, r2 \in Requests :
        /\ r1 # r2
        /\ r1 \in CallsOn(req[r2].KeyID)
        /\ r2 \in CallsOn(req[r1].KeyID)
        /\ Success(r1)
        /\ ret[r2].err = ErrRetrieval

----------------------------------------------------------------------------
(* C3 *)

\* C3: a writer excludes readers and other writers; the bytes of a stored
\* key differ from the stored bytes only inside the critical section of a
\* Zerorize; and the bytes of a key were the stored bytes at the moment Get
\* returned it.
C3_NoTornKey ==
    /\ mu.writer # 0 => mu.readers = {}
    /\ \A id \in DOMAIN keys : mu.writer = 0 => heap[keys[id]] = orig[keys[id]]
    /\ \A r \in Requests : HoldsKey(r) => seen[r] = orig[privKey[r]]

\* A Get on an id waits while the key of that id is half zeroed.
C3_Witness ==
    \E r1, r2 \in Requests :
        /\ gpc[r1] = "zeroing"
        /\ zi[r1] = 2
        /\ gpc[r2] = "get"
        /\ req[r1].KeyID = req[r2].KeyID

----------------------------------------------------------------------------
(* C4 *)

\* C4: the bytes a caller holds from a successful Get stay the bytes that
\* were stored, whatever other callers do to the vault (the caller itself
\* has not started its own Zerorize).
C4_GetReturnsCopy ==
    \A r \in Requests :
        (HoldsKey(r) /\ gpc[r] \in {"sign", "zerorize"}) => heap[privKey[r]] = seen[r]

----------------------------------------------------------------------------
(* C5 *)

\* The goroutine of request r is inside SignTransaction.
Signing(r) == gpc[r] \in {"get", "getting", "sign", "zerorize", "zeroing"}

\* The deadline of request r elapsed before the handler received a result.
DeadlineElapsed(r) == hpc[r] = "select" /\ ctxDone[r]

TimedOut(r) == hpc[r] = "done" /\ resp[r].status = StatusGatewayTimeout

\* C5: once the deadline has elapsed before the handoff, the handler can
\* take its timeout case wherever the goroutine stands and can take no
\* other; it answers gateway-timeout and returns.
C5_TimeoutDelivered ==
    /\ [](\A r \in Requests :
             DeadlineElapsed(r) => (ENABLED HandlerTimeout(r) /\ ~ENABLED Handoff(r)))
    /\ \A r \in Requests : DeadlineElapsed(r) ~> TimedOut(r)

\* The handler has answered 504 while the goroutine is still signing.
C5_Witness == \E r \in Requests : TimedOut(r) /\ Signing(r)

----------------------------------------------------------------------------
(* C6 *)

\* C6: a goroutine that stands in its select, SignTransaction having
\* returned, ends: it hands the result over or takes ctx.Done().
C6_GoroutineEnds == \A r \in Requests : (gpc[r] = "select") ~> (gpc[r] = "done")

\* A goroutine ended after its handler had answered the timeout, its
\* SignTransaction having returned a signature nobody received.
C6_Witness == \E r \in Requests : TimedOut(r) /\ gpc[r] = "done" /\ Success(r)

----------------------------------------------------------------------------
(* C7 *)

\* C7: when a request has timed out while its goroutine is inside
\* SignTransaction with valid input and the key is in the vault, the
\* goroutine still runs to its end and the key leaves the vault.
C7_TimeoutDoesNotStopSigning ==
    \A r \in Requests :
        (TimedOut(r) /\ Signing(r) /\ req[r].KeyID \in DOMAIN keys)
            ~> (gpc[r] = "done" /\ req[r].KeyID \notin DOMAIN keys)

\* A request was answered 504, its goroutine then erased the key, and a
\* later call on the id failed as not found.
C7_Witness ==
    \E r1, r2 \in Requests :
        /\ r1 # r2
        /\ TimedOut(r1)
        /\ gpc[r1] = "done"
        /\ Success(r1)
        /\ req[r2].KeyID = req[r1].KeyID
        /\ Returned(r2)
        /\ ret[r2].err = ErrRetrieval

----------------------------------------------------------------------------
(* C8 *)

\* The ed25519.Sign call of request r panics in this step.
PanicStep(r) ==
    /\ gpc[r] = "sign"
    /\ Len(heap[privKey[r]]) # KeyLen
    /\ gpc'[r] # "sign"

\* Everything that belongs to request q is left as it was.
RequestUnchanged(q) ==
    /\ UNCHANGED <<req[q], hpc[q], gpc[q], ctxDone[q], ret[q], resp[q]>>
    /\ UNCHANGED <<privKey[q], buf[q], zpk[q], zi[q], seen[q], ops[q]>>

\* C8: a panic inside the signing sequence never ends the process; the
\* call that panicked returns the one generic internal error and no
\* signature; the step changes neither the vault nor any other request;
\* and the caller that receives the result is answered with that generic
\* message.
C8_PanicRecovered ==
    /\ []alive
    /\ [][\A r \in Requests :
              PanicStep(r) =>
                  /\ ret'[r] = [result |-> [EmptyResult EXCEPT
                                               !.KeyID = req[r].KeyID,
                                               !.Error = ErrPanicResult],
                                err |-> ErrPanic]
                  /\ UNCHANGED vaultVars
                  /\ \A q \in Requests \ {r} : RequestUnchanged(q)]_vars
    /\ [](\A r \in Requests :
             (hpc[r] = "done" /\ gpc[r] = "done" /\ ret[r].err = ErrPanic
                  /\ resp[r].status # StatusGatewayTimeout)
                 => (resp[r].error = ErrPanic /\ resp[r].result = EmptyResult))

\* One call panicked and was recovered, and another call returned a
\* signature.
C8_Witness ==
    \E r, q \in Requests :
        /\ r # q
        /\ Returned(r)
        /\ ret[r].err = ErrPanic
        /\ Success(q)

----------------------------------------------------------------------------
(* C9 *)

\* The failure kind of an error SignTransaction returns.
ErrKind(e) ==
    IF e = ErrEmpty THEN "ValidationError"
    ELSE IF e = ErrRetrieval THEN "NotFoundError"
    ELSE IF e \in {ErrClearing, ErrPanic} THEN "InternalError"
    ELSE "DecodeError"

\* C9: the status reported to the caller follows the failure kind:
\* validation, decode and not-found failures a client-error status, an
\* internal error the internal-error status, a timeout gateway-timeout.
C9_StatusByFailureKind ==
    \A r \in Requests :
        (hpc[r] = "done" /\ gpc[r] # "none") =>
            IF resp[r].status = StatusGatewayTimeout THEN resp[r].error = ErrTimeout
            ELSE IF ret[r].err = "" THEN resp[r].status = StatusOK
            ELSE IF ErrKind(ret[r].err) = "InternalError"
                 THEN resp[r].status = StatusInternalServerError
            ELSE resp[r].status = StatusBadRequest

----------------------------------------------------------------------------
(* C10 *)

\* C10: a call with an empty key id or an empty payload returns the
\* validation error and no signature, and has issued no vault operation.
C10_ValidationBeforeVault ==
    \A r \in Requests :
        (gpc[r] # "none" /\ (req[r].KeyID = "" \/ req[r].UnsignedTxData = <<>>)) =>
            /\ Returned(r)
            /\ ret[r].err = ErrEmpty
            /\ ret[r].result.Signature = <<>>
            /\ ops[r] = <<>>

\* A call with an empty payload on an id whose key is in the vault has
\* returned, and so has a call with an empty key id.
C10_Witness ==
    /\ \E r \in Requests :
           /\ Returned(r)
           /\ req[r].KeyID \in DOMAIN keys
           /\ req[r].UnsignedTxData = <<>>
    /\ \E r \in Requests :
           /\ Returned(r)
           /\ req[r].KeyID = ""
           /\ req[r].UnsignedTxData # <<>>

----------------------------------------------------------------------------
(* C11 *)

\* Request r called SignTransaction with a key id and the malformed payload.
DecodeFailed(r) ==
    gpc[r] # "none" /\ req[r].KeyID # "" /\ req[r].UnsignedTxData = MalformedPayload

\* C11: a call with a non-empty key id and a malformed base64 payload
\* returns the decode error and no signature without any vault operation,
\* its step leaves the vault as it was, and, calls being made one after
\* another, a later call with the same id and a decodable payload succeeds
\* when only such failed calls on the id came before it.
C11_DecodeErrorLeavesKey ==
    /\ [](\A r \in Requests :
             DecodeFailed(r) =>
                 /\ Returned(r)
                 /\ ret[r].err = ErrDecode(1)
                 /\ ret[r].result.Signature = <<>>
                 /\ ops[r] = <<>>)
    /\ [][\A r \in Requests :
              (gpc[r] = "none" /\ DecodeFailed(r)') => UNCHANGED vaultVars]_vars
    /\ [](\A r2 \in Requests :
             (/\ Returned(r2)
              /\ known[r2]
              /\ req[r2].UnsignedTxData = GoodPayload
              /\ \A q \in 1..(r2 - 1) : req[q].KeyID = req[r2].KeyID => DecodeFailed(q))
                 => Success(r2))

\* A call on a stored key failed to decode its payload, and the next call
\* on the same id, with a decodable payload, returned a signature.
C11_Witness ==
    \E r1, r2 \in Requests :
        /\ r1 < r2
        /\ DecodeFailed(r1)
        /\ known[r1]
        /\ req[r2].KeyID = req[r1].KeyID
        /\ Success(r2)

----------------------------------------------------------------------------
(* C12 *)

\* The Get call of caller c returns in this step.
GetReturns(c) == gpc[c] = "getting" /\ gpc'[c] = "none"

\* Caller c calls Zerorize in this step.
ZerorizeCalled(c) == gpc[c] = "none" /\ ops'[c] = Append(ops[c], "Zerorize")

\* The last call of caller c was op, and it has returned.
LastCall(c, op) == gpc[c] = "none" /\ ops[c] # <<>> /\ ops[c][Len(ops[c])] = op

\* C12: whatever the vault holds, a Get and a Zerorize of an id that is
\* not stored return their not-found error, Get returning no key, and the
\* call leaves the map and the key bytes as they were.
C12_NotFound ==
    [][\A c \in Requests :
          /\ (GetReturns(c) /\ req[c].KeyID \notin DOMAIN keys) =>
                 /\ ret'[c].err = "key not found"
                 /\ privKey'[c] = 0
                 /\ UNCHANGED <<keys, heap>>
          /\ (ZerorizeCalled(c) /\ req'[c].KeyID \notin DOMAIN keys) =>
                 /\ ret'[c].err = "Key not found"
                 /\ gpc'[c] = "none"
                 /\ UNCHANGED <<keys, heap, mu>>]_vars

\* With a key stored under one id, a Get of another id and a Zerorize of
\* an id that was erased before have both returned not found.
C12_Witness ==
    \E c1, c2 \in Requests :
        /\ c1 # c2
        /\ LastCall(c1, "Get")
        /\ ret[c1].err = ErrGet
        /\ req[c1].KeyID \notin DOMAIN keys
        /\ LastCall(c2, "Zerorize")
        /\ ret[c2].err = ErrZerorize
        /\ keys # <<>>

----------------------------------------------------------------------------
(* C13 *)

\* The Zerorize call of caller c returns nil in this step.
ZerorizeReturnsNil(c) == gpc[c] = "zeroing" /\ gpc'[c] = "none"

\* C13: a Zerorize that returns nil leaves its id out of the map, only a
\* Store of the id puts it back, and a Get returns not found exactly when
\* the id is not in the map; a Get of a stored id returns the slice stored
\* last under the id, holding exactly the bytes that were stored.
C13_StoreEraseGet ==
    /\ [][\A c \in Requests :
              /\ ZerorizeReturnsNil(c) =>
                     (req[c].KeyID \notin DOMAIN keys' /\ ret'[c].err = "")
              /\ GetReturns(c) =>
                     IF req[c].KeyID \in DOMAIN keys
                     THEN /\ ret'[c].err = ""
                          /\ privKey'[c] = keys[req[c].KeyID]
                          /\ heap[privKey'[c]] = orig[privKey'[c]]
                          /\ seen'[c] = orig[privKey'[c]]
                     ELSE ret'[c].err = ErrGet /\ privKey'[c] = 0]_vars
    /\ [][\A id \in VaultIds :
              (id \notin DOMAIN keys /\ id \in DOMAIN keys') =>
                  (Len(heap') = Len(heap) + 1 /\ keys'[id] = Len(heap'))]_vars

\* One key was stored, once.  A caller got it, with the stored bytes; then
\* another caller erased it and its following Get of the id returned not
\* found.
C13_Witness ==
    \E c1, c2 \in Requests :
        /\ c1 # c2
        /\ Len(heap) = 1
        /\ keys = <<>>
        /\ heap[1] # orig[1]
        /\ ops[c1] = <<"Get">>
        /\ privKey[c1] = 1
        /\ seen[c1] = orig[1]
        /\ ops[c2] = <<"Zerorize", "Get">>
        /\ gpc[c2] = "none"
        /\ ret[c2].err = ErrGet
        /\ req[c2].KeyID = req[c1].KeyID
        /\ \A q \in Requests \ {c2} : \A i \in 1..Len(ops[q]) : ops[q][i] # "Zerorize"

----------------------------------------------------------------------------
(* C14 *)

\* The record of id x (its presence, its slice, the bytes of the slice)
\* differs before and after this step.
RecordChanged(x) ==
    \/ (x \in DOMAIN keys) # (x \in DOMAIN keys')
    \/ /\ x \in DOMAIN keys
       /\ x \in DOMAIN keys'
       /\ (keys'[x] # keys[x] \/ heap'[keys'[x]] # heap[keys[x]])

\* This step is a Store of id x, or a step of a Zerorize of id x.
Targets(x) ==
    \/ Len(heap') = Len(heap) + 1 /\ x \in DOMAIN keys' /\ keys'[x] = Len(heap')
    \/ \E c \in Requests : gpc[c] = "zeroing" /\ req[c].KeyID = x

\* C14: a step of a Store or a Zerorize changes the record of no id but
\* its own; and while goroutines Store and Zerorize WriteId in any
\* interleaving, RawId stays stored with its bytes unaltered and every Get
\* of RawId returns, without error, the whole non-empty key stored under it.
C14_NoCrossContamination ==
    /\ [][\A x \in VaultIds : RecordChanged(x) => Targets(x)]_vars
    /\ [](heap # <<>> =>
             /\ RawId \in DOMAIN keys
             /\ keys[RawId] = 1
             /\ heap[1] = orig[1])
    /\ [](\A c \in Requests :
             LastCall(c, "Get") =>
                 /\ ret[c].err = ""
                 /\ privKey[c] = 1
                 /\ Len(seen[c]) > 0
                 /\ seen[c] = orig[1]
                 /\ heap[privKey[c]] = orig[1])

\* A reader holds the key of RawId from a Get that returned while a key
\* of WriteId was stored, and a writer is halfway through zeroing that key.
C14_Witness ==
    \E c1, c2 \in Requests :
        /\ LastCall(c1, "Get")
        /\ privKey[c1] = 1
        /\ gpc[c2] = "zeroing"
        /\ req[c2].KeyID = WriteId
        /\ zpk[c2] = 2
        /\ zi[c2] = 2
        /\ Len(heap[2]) >= 2

----------------------------------------------------------------------------
(* C15 *)

\* base64.CorruptInputError.Error()
CorruptInputError(off) == "illegal base64 data at input byte " \o ToString(off)

\* The error texts of the layers below SignTransaction: the vault and the
\* base64 decoder.
RawErrors == {ErrGet, ErrZerorize} \cup {CorruptInputError(off) : off \in 0..4}

\* What SignTransaction puts in front of an error it wraps.
WrapPrefixes ==
    {"Invalid base64 encoding of tx data: ",
     "key retrieval failed w/ error: ",
     "error clearing key from mem: "}

\* The message is, or ends with, the error text of a lower layer.
CarriesRawError(msg) ==
    \/ msg \in RawErrors
    \/ \E p \in WrapPrefixes, e \in RawErrors : msg = p \o e

\* C15: the message of every failure response is a fixed generic message;
\* it never carries the error text of the vault or of the decoder.
C15_GenericMessagesOnly ==
    \A r \in Requests :
        (hpc[r] = "done" /\ resp[r].status # StatusOK) => ~CarriesRawError(resp[r].error)

----------------------------------------------------------------------------
(* C16 *)

\* The handler of request r waits for the result or the deadline.
Pending(r) == hpc[r] = "select"

\* The handler of request r has written its response and returned.
Terminal(r) == hpc[r] = "done"

\* The response of request r is the result SignTransaction returned: the
\* signature, or the error of a failed call.
Completed(r) ==
    /\ Terminal(r)
    /\ Returned(r)
    /\ ret[r].err # ErrPanic
    /\ \/ /\ ret[r].err = ""
          /\ resp[r] = [status |-> StatusOK, error |-> "", result |-> ret[r].result]
       \/ /\ ret[r].err # ""
          /\ resp[r] = [status |-> StatusBadRequest, error |-> ret[r].err,
                        result |-> EmptyResult]

\* The response of request r reports the recovered fault of its call.
Faulted(r) ==
    /\ Terminal(r)
    /\ Returned(r)
    /\ ret[r].err = ErrPanic
    /\ resp[r].error = ErrPanic

\* How many of the three terminal outcomes request r has.
OutcomeCount(r) ==
    (IF Completed(r) THEN 1 ELSE 0) + (IF TimedOut(r) THEN 1 ELSE 0)
        + (IF Faulted(r) THEN 1 ELSE 0)

\* C16: a request whose goroutine was started is pending until its handler
\* returns, and the handler does return; it then has exactly one of the
\* outcomes completed, timed out and faulted; a response is written
\* exactly when the handler returns and is never changed afterwards; and
\* SignTransaction is called once: the call does not start again, its
\* arguments and its returned values stay, and it issues at most one Get
\* and one Zerorize.
C16_OneTerminalOutcome ==
    /\ [](\A r \in Requests :
             gpc[r] # "none" =>
                 /\ Pending(r) \/ Terminal(r)
                 /\ Pending(r) => OutcomeCount(r) = 0
                 /\ Terminal(r) => OutcomeCount(r) = 1
                 /\ Terminal(r) <=> resp[r] # NoResponse
                 /\ ops[r] \in {<<>>, <<"Get">>, <<"Get", "Zerorize">>})
    /\ [][\A r \in Requests :
              /\ Terminal(r) => (Terminal(r)' /\ resp'[r] = resp[r])
              /\ gpc[r] # "none" => (gpc'[r] # "none" /\ req'[r] = req[r])
              /\ Returned(r) => (Returned(r)' /\ ret'[r] = ret[r])]_vars
    /\ \A r \in Requests : Pending(r) ~> Terminal(r)

\* One request was answered with its signature and another with the
\* timeout, its call having returned later.
C16_Witness ==
    \E r1, r2 \in Requests :
        /\ Completed(r1)
        /\ resp[r1].status = StatusOK
        /\ TimedOut(r2)
        /\ Returned(r2)
        /\ ops[r2] = <<"Get">>

----------------------------------------------------------------------------
(* C17 *)

\* The Zerorize call of SignTransaction of request r finds no key in this step.
EraseFails(r) ==
    gpc[r] = "zerorize" /\ gpc'[r] # "zerorize" /\ req[r].KeyID \notin DOMAIN keys

\* C17: when the Zerorize of a call that obtained the key finds the key
\* gone, the call returns the clearing error, an internal error and not the
\* not-found error of the key retrieval, with no signature in its result;
\* and a call that issued its Zerorize and failed has returned exactly that,
\* another call on the id having erased the key.
C17_EraseFailureIsInternal ==
    /\ [][\A r \in Requests :
              EraseFails(r) =>
                  /\ ret'[r].err = "error clearing key from mem: Key not found"
                  /\ ErrKind(ret'[r].err) = "InternalError"
                  /\ ret'[r].err # ErrRetrieval
                  /\ ret'[r].result.Signature = <<>>
                  /\ UNCHANGED <<keys, heap>>]_vars
    /\ [](\A r \in Requests :
             (Returned(r) /\ ops[r] = <<"Get", "Zerorize">> /\ ~Success(r)) =>
                 /\ ret[r].err = ErrClearing
                 /\ ret[r].result.Signature = <<>>
                 /\ \E q \in Requests \ {r} :
                        req[q].KeyID = req[r].KeyID /\ ops[q] = <<"Get", "Zerorize">>)

\* A call obtained the key, another call on the id erased it first, and
\* the caller of the first was answered with the clearing error.
C17_Witness ==
    \E r, q \in Requests :
        /\ r # q
        /\ req[q].KeyID = req[r].KeyID
        /\ Success(q)
        /\ ops[r] = <<"Get", "Zerorize">>
        /\ Terminal(r)
        /\ resp[r].error = ErrClearing

----------------------------------------------------------------------------
(* C18 *)

\* A Store call passes its slice to the vault in this step.
StoreStep == Len(heap') = Len(heap) + 1

\* C18: a Store makes its slice the one record of its id, whether or not
\* the id had a record; it changes no byte of any slice that existed,
\* the replaced one included, and no record of another id; and a Get of
\* a stored id returns the slice the map holds for it with its bytes.
C18_StoreOverwrites ==
    /\ [][StoreStep =>
              /\ SubSeq(heap', 1, Len(heap)) = heap
              /\ \E id \in VaultIds :
                     /\ DOMAIN keys' = DOMAIN keys \cup {id}
                     /\ keys'[id] = Len(heap')
                     /\ \A x \in DOMAIN keys \ {id} : keys'[x] = keys[x]]_vars
    /\ [][\A c \in Requests :
              (GetReturns(c) /\ req[c].KeyID \in DOMAIN keys) =>
                  /\ privKey'[c] = keys[req[c].KeyID]
                  /\ seen'[c] = heap[keys[req[c].KeyID]]]_vars
    /\ [](\A x, y \in DOMAIN keys : keys[x] = keys[y] => x = y)

\* A caller got k1 from an id; a Store then put k2 under the same id and
\* another caller's Get returned k2, while the slice of k1 still holds
\* the bytes of k1.
C18_Witness ==
    \E c1, c2 \in Requests :
        /\ Len(heap) = 2
        /\ orig[1] # orig[2]
        /\ LastCall(c1, "Get")
        /\ privKey[c1] = 1
        /\ LastCall(c2, "Get")
        /\ privKey[c2] = 2
        /\ seen[c2] = orig[2]
        /\ req[c1].KeyID = req[c2].KeyID
        /\ DOMAIN keys = {req[c2].KeyID}
        /\ heap[1] = orig[1]

----------------------------------------------------------------------------
(* C19 *)

\* The key bytes from which the signature in a result was computed.
SignedWith(result) == result.Signature[2][1]

\* Request r has finished ed25519.Sign, having read bytes that were not
\* the stored bytes of the key.
SignedWithZeroedKey(r) ==
    gpc[r] \in {"zerorize", "zeroing"} /\ buf[r] # orig[privKey[r]]

\* C19: the signature of every success result was computed from the
\* bytes GenerateKey stored under the call's id; a call whose Zerorize
\* finds the key has signed with the stored bytes, and a call that read
\* zeroed bytes does not return success.
C19_NoSignatureFromZeroedKey ==
    /\ [](\A r \in Requests :
             Success(r) =>
                 \E ref \in 1..Len(orig) :
                     /\ KeyIdOf(orig[ref]) = req[r].KeyID
                     /\ SignedWith(ret[r].result) = orig[ref])
    /\ [](\A r \in Requests : gpc[r] = "zeroing" => buf[r] = orig[zpk[r]])
    /\ [][\A r \in Requests : SignedWithZeroedKey(r) => ~Success(r)']_vars

\* A call has computed its signature from bytes another call on the same
\* id was zeroing, and that other call returned success.
C19_Witness ==
    \E r, q \in Requests :
        /\ r # q
        /\ req[q].KeyID = req[r].KeyID
        /\ gpc[r] = "zerorize"
        /\ \E i \in 1..KeyLen : buf[r][i] = 0
        /\ Success(q)

----------------------------------------------------------------------------
(* C20 *)

\* The call of request r stands before its Zerorize call and takes a step.
StepBeforeErase(r) ==
    /\ gpc[r] \in {"none", "get", "getting", "sign"}
    /\ <<gpc[r], buf[r], ret[r]>>' # <<gpc[r], buf[r], ret[r]>>

\* The call of request r returned an error without calling Zerorize.
FailedBeforeErase(r) ==
    /\ Returned(r)
    /\ ret[r].err # ""
    /\ ops[r] \in {<<>>, <<"Get">>}

\* No call on the id has called Zerorize.
NoEraseCalled(id) ==
    \A q \in Requests : req[q].KeyID = id => ops[q] # <<"Get", "Zerorize">>

\* C20: no step of a call before its Zerorize changes the map or a key
\* byte; a call that returns the validation, decode, retrieval or panic
\* error has not called Zerorize, and every other failure and every
\* success has; and a key that was stored when such a call started is
\* still stored, with its stored bytes, as long as no call on the id has
\* called Zerorize.
C20_KeyConsumedOnlyBySuccess ==
    /\ [][\A r \in Requests : StepBeforeErase(r) => UNCHANGED <<keys, heap>>]_vars
    /\ [](\A r \in Requests :
             Returned(r) =>
                 IF ret[r].err \in {ErrEmpty, ErrDecode(1), ErrRetrieval, ErrPanic}
                 THEN FailedBeforeErase(r)
                 ELSE ops[r] = <<"Get", "Zerorize">>)
    /\ [](\A r \in Requests :
             (/\ FailedBeforeErase(r)
              /\ known[r] \/ ret[r].err = ErrPanic
              /\ NoEraseCalled(req[r].KeyID))
                 => /\ req[r].KeyID \in DOMAIN keys
                    /\ heap[keys[req[r].KeyID]] = orig[keys[req[r].KeyID]])

\* A call panicked in the signing step after its Get and another failed
\* its validation on a generated id: both keys are still stored, with
\* their stored bytes.
C20_Witness ==
    \E r, q \in Requests :
        /\ Returned(r)
        /\ ret[r].err = ErrPanic
        /\ ops[r] = <<"Get">>
        /\ Returned(q)
        /\ ret[q].err = ErrEmpty
        /\ known[q]
        /\ \A x \in {req[r].KeyID, req[q].KeyID} :
               x \in DOMAIN keys /\ heap[keys[x]] = orig[keys[x]]

====
